---- MODULE Spec2Model ----
(***************************************************************************)
(* Model of the fancam organizer (src/fancam_organizer.py): frame sampling, *)
(* largest-face selection, per-video fingerprints, DBSCAN clustering under  *)
(* cosine distance, folder naming and file moves, and the main pipeline.    *)
(*                                                                          *)
(* Representation.                                                          *)
(*  - An embedding is a tuple of integers.  None is the empty tuple.        *)
(*  - A frame is what the detector does on it: [raises, results], results   *)
(*    a sequence of detections [w, h, embedding].                           *)
(*  - A video is [opened, total_frames, pattern]: the content decoded at    *)
(*    frame index k is pattern[(k % Len(pattern)) + 1], a record            *)
(*    [ret, frame] (ret = FALSE: cap.read() fails).                         *)
(*  - A fingerprint is a unit vector d/|d| with d an integer vector; it is  *)
(*    written as the primitive integer vector of its direction (d divided   *)
(*    by the gcd of its entries), which is exact: two such unit vectors are *)
(*    equal iff their primitive vectors are.  The zero vector is itself.    *)
(*  - A Python dict is a sequence of <<key, value>> pairs in insertion      *)
(*    order, keys distinct.                                                 *)
(*  - A call that can raise returns [raised, value].                        *)
(***************************************************************************)
EXTENDS Integers, Sequences, FiniteSets, TLC

VARIABLES
    pc,                  \* position of main, or "call"/"return" of a single call
    arg,                 \* the argument of a single call
    ret,                 \* the result of a single call
    args,                \* parsed command line: source_exists, dry_run, eps, min_samples
    disk,                \* the source directory: name -> entry, names 1..n
    video_files,         \* main: list of video names (sorted)
    i,                   \* main: position of the fingerprinting loop in video_files
    video_embeddings,    \* main: dict name -> fingerprint
    error_files,         \* main: list of names without fingerprint
    cluster_assignments, \* main: dict name -> label
    report,              \* main: the printed distribution, lines <<folder, count>>
    fs,                  \* file system: [loc: name -> place, dirs: created folders]
    moved,               \* main: result of organize_videos (dict name -> folder)
    rc,                  \* main: exit status, -1 while running
    cluster_calls        \* history: the arguments of the calls of cluster_videos

vars == <<pc, arg, ret, args, disk, video_files, i, video_embeddings, error_files,
          cluster_assignments, report, fs, moved, rc, cluster_calls>>

-----------------------------------------------------------------------------
(* Program constants *)

FRAMES_TO_EXTRACT == 20

\* SKIP_PERCENT = 0.10, in percent
SKIP_PERCENT == 10

\* "if total_frames < 10"
MIN_TOTAL_FRAMES == 10

(* Bounds of the model *)

\* largest total frame count of a video handed to extract_frames alone
MaxTotalFrames == 60

\* longest content pattern of a video
MaxPatternLen == 3

\* most detections in one frame
MaxFaces == 3

\* largest width and height of a bounding box
MaxSide == 2

\* most entries of the source directory in a run of main
MaxFiles == 3

\* most fingerprints handed to cluster_videos alone
MaxPoints == 3

\* most file names handed to organize_videos alone
MaxOrgFiles == 2

\* largest cluster label handed to organize_videos alone
MaxLabel == 2

\* longest error list handed to organize_videos alone
MaxErrors == 2

\* most lines of a timestamp file
MaxLines == 3

-----------------------------------------------------------------------------
(* Values *)

None == << >>

Embeddings == { <<1, 0>>, <<1, 1>>, <<0, 1>>, <<-1, 0>> }

Range(s) == { s[k] : k \in DOMAIN s }

SeqsUpTo(S, n) == UNION { [1..m -> S] : m \in 0..n }

RECURSIVE SelectIdx(_, _, _)
\* the positions k >= from of s with s[k] \in keep, ascending
SelectIdx(s, keep, from) ==
    IF from > Len(s) THEN << >>
    ELSE IF s[from] \in keep THEN <<from>> \o SelectIdx(s, keep, from + 1)
    ELSE SelectIdx(s, keep, from + 1)

-----------------------------------------------------------------------------
(* extract_frames *)

ContentAt(video, frame_idx) ==
    video.pattern[(frame_idx % Len(video.pattern)) + 1]

\* int(total_frames * SKIP_PERCENT)
start_frame(total_frames) == (total_frames * SKIP_PERCENT) \div 100

\* int(total_frames * (1 - SKIP_PERCENT))
end_frame(total_frames) == (total_frames * (100 - SKIP_PERCENT)) \div 100

\* slip: the samples are taken at i = 1..num_frames instead of 0..num_frames-1
frame_indices_shifted(total_frames, num_frames) ==
    LET start == start_frame(total_frames)
        usable_frames == end_frame(total_frames) - start
    IN  IF usable_frames < num_frames
        THEN [k \in 1..usable_frames |-> start + (k - 1)]
        ELSE [k \in 1..num_frames |-> start + ((k * usable_frames) \div num_frames)]

\* range(start, end - 1) in the branch of line 62
frame_indices_dense_short(total_frames, num_frames) ==
    LET start == start_frame(total_frames)
        usable_frames == end_frame(total_frames) - start
    IN  IF usable_frames < num_frames
        THEN [k \in 1..(usable_frames - 1) |-> start + (k - 1)]
        ELSE [k \in 1..num_frames |-> start + (((k - 1) * usable_frames) \div num_frames)]

\* a step of usable_frames // num_frames in line 64
frame_indices_int_step(total_frames, num_frames) ==
    LET start == start_frame(total_frames)
        usable_frames == end_frame(total_frames) - start
    IN  IF usable_frames < num_frames
        THEN [k \in 1..usable_frames |-> start + (k - 1)]
        ELSE [k \in 1..num_frames |-> start + (k - 1) * (usable_frames \div num_frames)]

frame_indices(total_frames, num_frames) ==
    LET start == start_frame(total_frames)
        usable_frames == end_frame(total_frames) - start
    IN  IF usable_frames < num_frames
        THEN [k \in 1..usable_frames |-> start + (k - 1)]
        ELSE [k \in 1..num_frames |-> start + (((k - 1) * usable_frames) \div num_frames)]

\* [raised, frame_indices, frames]: the indices sought, and the frames read
extract_frames(video, num_frames) ==
    IF ~video.opened
    THEN [raised |-> TRUE, frame_indices |-> << >>, frames |-> << >>]
    ELSE IF video.total_frames < MIN_TOTAL_FRAMES
    THEN [raised |-> TRUE, frame_indices |-> << >>, frames |-> << >>]
    ELSE LET idx == frame_indices(video.total_frames, num_frames)
             read == [k \in 1..Len(idx) |-> ContentAt(video, idx[k])]
             ok == SelectIdx(read, { c \in Range(read) : c.ret }, 1)
         IN  [raised |-> FALSE,
              frame_indices |-> idx,
              frames |-> [k \in 1..Len(ok) |-> read[ok[k]].frame]]

-----------------------------------------------------------------------------
(* get_largest_face_embedding *)

Area(x) == x.w * x.h

\* slip: the last element of maximal key
PyMax_last(results) ==
    LET k == CHOOSE k \in 1..Len(results) :
                 /\ \A j \in 1..Len(results) : Area(results[j]) <= Area(results[k])
                 /\ \A j \in (k + 1)..Len(results) : Area(results[j]) < Area(results[k])
    IN  results[k]

\* Python's max(results, key=area): the first element of maximal key
PyMax(results) ==
    LET k == CHOOSE k \in 1..Len(results) :
                 /\ \A j \in 1..Len(results) : Area(results[j]) <= Area(results[k])
                 /\ \A j \in 1..(k - 1) : Area(results[j]) < Area(results[k])
    IN  results[k]

get_largest_face_embedding(frame) ==
    IF frame.raises THEN None
    ELSE IF frame.results = << >> THEN None
    ELSE IF Len(frame.results) > 1 THEN PyMax(frame.results).embedding
    ELSE frame.results[1].embedding

-----------------------------------------------------------------------------
(* compute_video_fingerprint *)

RECURSIVE Gcd(_, _)
Gcd(a, b) == IF b = 0 THEN a ELSE Gcd(b, a % b)

Abs(x) == IF x < 0 THEN -x ELSE x

RECURSIVE VecSum(_)
\* the entry-wise sum of a non-empty sequence of vectors of one length
VecSum(vs) ==
    IF Len(vs) = 1 THEN vs[1]
    ELSE LET rest == VecSum(Tail(vs))
         IN  [k \in 1..Len(vs[1]) |-> vs[1][k] + rest[k]]

RECURSIVE GcdAll(_)
GcdAll(v) == IF v = << >> THEN 0 ELSE Gcd(Abs(Head(v)), GcdAll(Tail(v)))

\* np.mean(embeddings, axis=0) is VecSum/Len, and mean / norm(mean) is the unit
\* vector of the direction of VecSum, unless the norm is 0
MeanNormalized(embeddings) ==
    LET total == VecSum(embeddings)
        g == GcdAll(total)
    IN  IF g > 0 THEN [k \in 1..Len(total) |-> total[k] \div g] ELSE total

\* slip: one failing frame discards the whole video
CollectEmbeddings_abort(frames) ==
    LET found == [k \in 1..Len(frames) |-> get_largest_face_embedding(frames[k])]
    IN  IF None \in Range(found) THEN << >> ELSE found

\* the embeddings of the frames that yield one, in frame order
CollectEmbeddings(frames) ==
    LET found == [k \in 1..Len(frames) |-> get_largest_face_embedding(frames[k])]
        some == SelectIdx(found, Range(found) \ {None}, 1)
    IN  [k \in 1..Len(some) |-> found[some[k]]]

\* slip: the ValueError of extract_frames is not caught
compute_video_fingerprint_nocatch(video) ==
    LET r == extract_frames(video, FRAMES_TO_EXTRACT)
    IN  IF r.raised THEN [raised |-> TRUE, value |-> None]
        ELSE LET embeddings == CollectEmbeddings(r.frames)
             IN  IF embeddings = << >> THEN [raised |-> FALSE, value |-> None]
                 ELSE [raised |-> FALSE, value |-> MeanNormalized(embeddings)]

\* slip: no "if not embeddings: return None"; the mean of nothing is a vector
\* (of nan), written <<0, 0>> here
compute_video_fingerprint_nocheck(video) ==
    LET r == extract_frames(video, FRAMES_TO_EXTRACT)
    IN  IF r.raised THEN [raised |-> FALSE, value |-> None]
        ELSE LET embeddings == CollectEmbeddings(r.frames)
             IN  IF embeddings = << >> THEN [raised |-> FALSE, value |-> <<0, 0>>]
                 ELSE [raised |-> FALSE, value |-> MeanNormalized(embeddings)]

compute_video_fingerprint(video) ==
    LET r == extract_frames(video, FRAMES_TO_EXTRACT)
    IN  IF r.raised THEN [raised |-> FALSE, value |-> None]
        ELSE LET embeddings == CollectEmbeddings(r.frames)
             IN  IF embeddings = << >> THEN [raised |-> FALSE, value |-> None]
                 ELSE [raised |-> FALSE, value |-> MeanNormalized(embeddings)]

-----------------------------------------------------------------------------
(* Python dicts as sequences of <<key, value>> pairs *)

Keys(d) == [k \in 1..Len(d) |-> d[k][1]]

KeySet(d) == { d[k][1] : k \in 1..Len(d) }

Values(d) == [k \in 1..Len(d) |-> d[k][2]]

Get(d, key) == d[CHOOSE k \in 1..Len(d) : d[k][1] = key][2]

\* d[key] = value
Put(d, key, value) ==
    IF key \in KeySet(d)
    THEN [k \in 1..Len(d) |-> IF d[k][1] = key THEN <<key, value>> ELSE d[k]]
    ELSE Append(d, <<key, value>>)

-----------------------------------------------------------------------------
(* cluster_videos: sklearn's DBSCAN with metric='cosine' *)

RECURSIVE Dot(_, _)
Dot(a, b) == IF a = << >> THEN 0 ELSE (Head(a) * Head(b)) + Dot(Tail(a), Tail(b))

\* cosine distance 1 - a.b/(|a||b|) <= eps, for eps the fraction eps[1]/eps[2];
\* a zero vector has similarity 0 to everything (sklearn normalizes rows and
\* leaves a zero row as it is), so distance 1
WithinEps(a, b, eps) ==
    LET n2 == Dot(a, a) * Dot(b, b)
        l == eps[2] * Dot(a, b)
        r == eps[2] - eps[1]
    IN  IF n2 = 0 THEN eps[2] <= eps[1]
        ELSE IF r > 0 THEN l >= 0 /\ l * l >= r * r * n2
        ELSE l >= 0 \/ l * l <= r * r * n2

\* radius_neighbors: the points within eps of point k, k itself included
Neighborhood(X, k, eps) ==
    { j \in 1..Len(X) : j = k \/ WithinEps(X[k], X[j], eps) }

\* slip: the point itself is not counted
IsCore_strict(X, k, eps, min_samples) ==
    Cardinality(Neighborhood(X, k, eps)) > min_samples

IsCore(X, k, eps, min_samples) ==
    Cardinality(Neighborhood(X, k, eps)) >= min_samples

\* slip: only the neighbours of the seed join its cluster
Expand_direct(X, eps, min_samples, labels, S) ==
    S \cup { v \in 1..Len(X) :
                /\ labels[v] = -1
                /\ \E c \in S : /\ IsCore(X, c, eps, min_samples)
                                /\ v \in Neighborhood(X, c, eps) }

RECURSIVE Expand(_, _, _, _, _)
\* the unlabelled points reached from S through core points
Expand(X, eps, min_samples, labels, S) ==
    LET more == S \cup { v \in 1..Len(X) :
                    /\ labels[v] = -1
                    /\ \E c \in S : /\ IsCore(X, c, eps, min_samples)
                                    /\ v \in Neighborhood(X, c, eps) }
    IN  IF more = S THEN S ELSE Expand(X, eps, min_samples, labels, more)

RECURSIVE dbscan_inner(_, _, _, _, _, _)
\* sklearn's dbscan_inner: points in input order, clusters numbered from 0
dbscan_inner(X, eps, min_samples, labels, k, label_num) ==
    IF k > Len(X) THEN labels
    ELSE IF labels[k] # -1 \/ ~IsCore(X, k, eps, min_samples)
    THEN dbscan_inner(X, eps, min_samples, labels, k + 1, label_num)
    ELSE LET S == Expand(X, eps, min_samples, labels, {k})
         IN  dbscan_inner(X, eps, min_samples,
                          [v \in 1..Len(X) |-> IF v \in S THEN label_num ELSE labels[v]],
                          k + 1, label_num + 1)

\* DBSCAN(eps, min_samples, metric='cosine').fit(embeddings): raises on an
\* empty array (np.array([]) is 1-D) and on eps <= 0
cluster_videos(embeddings_by_name, eps, min_samples) ==
    LET filenames == Keys(embeddings_by_name)
        embeddings == Values(embeddings_by_name)
    IN  IF Len(embeddings) = 0 \/ eps[1] <= 0
        THEN [raised |-> TRUE, value |-> << >>]
        ELSE LET labels == dbscan_inner(embeddings, eps, min_samples,
                                        [v \in 1..Len(embeddings) |-> -1], 1, 0)
             IN  [raised |-> FALSE,
                  value |-> [k \in 1..Len(filenames) |-> <<filenames[k], labels[k]>>]]

-----------------------------------------------------------------------------
(* organize_videos *)

Digits == <<"0", "1", "2", "3", "4", "5", "6", "7", "8", "9">>

RECURSIVE Decimal(_)
Decimal(n) == IF n < 10 THEN Digits[n + 1] ELSE Decimal(n \div 10) \o Digits[(n % 10) + 1]

\* format(n, "02d") for n >= 0
Pad2(n) == IF n < 10 THEN "0" \o Decimal(n) ELSE Decimal(n)

\* slip: the folder number is the label itself
DancerName_zero_based(cluster_id) == "Dancer_" \o Pad2(cluster_id)

\* f"Dancer_{cluster_id + 1:02d}"
DancerName(cluster_id) == "Dancer_" \o Pad2(cluster_id + 1)

ClusterDir(cluster_id) == IF cluster_id = -1 THEN "Unknown" ELSE DancerName(cluster_id)

Exists(files, filename) == filename \in DOMAIN files.loc /\ files.loc[filename] = "source"

\* if src.exists(): shutil.move(src, dst); moved_files[filename] = dst
\* (moves lists the calls of shutil.move in the order they are made)
Move(state, filename, dst) ==
    IF Exists(state.fs, filename)
    THEN [fs |-> [state.fs EXCEPT !.loc[filename] = dst],
          moved_files |-> Put(state.moved_files, filename, dst),
          moves |-> Append(state.moves, <<filename, dst>>)]
    ELSE state

RECURSIVE MoveErrors(_, _)
MoveErrors(state, names) ==
    IF names = << >> THEN state
    ELSE MoveErrors(Move(state, Head(names), "Error"), Tail(names))

RECURSIVE MoveClustered(_, _)
MoveClustered(state, assignments) ==
    IF assignments = << >> THEN state
    ELSE MoveClustered(Move(state, Head(assignments)[1], ClusterDir(Head(assignments)[2])),
                       Tail(assignments))

\* the error loop of lines 202-207 after the cluster loop of lines 210-215
organize_videos_cluster_first(files, assignments, errors) ==
    LET unique_clusters == Range(Values(assignments))
        made == [files EXCEPT !.dirs = @ \cup {"Error", "Unknown"}
                                         \cup { ClusterDir(c) : c \in unique_clusters }]
    IN  MoveErrors(MoveClustered([fs |-> made, moved_files |-> << >>, moves |-> << >>],
                                 assignments), errors)

\* [fs, moved_files, moves]
organize_videos(files, assignments, errors) ==
    LET unique_clusters == Range(Values(assignments))
        made == [files EXCEPT !.dirs = @ \cup {"Error", "Unknown"}
                                         \cup { ClusterDir(c) : c \in unique_clusters }]
    IN  MoveClustered(MoveErrors([fs |-> made, moved_files |-> << >>, moves |-> << >>],
                                 errors), assignments)

-----------------------------------------------------------------------------
(* main *)

RECURSIVE SortedSeq(_)
\* sorted(S) for a set of names
SortedSeq(S) ==
    IF S = {} THEN << >>
    ELSE LET m == CHOOSE x \in S : \A y \in S : x <= y
         IN  <<m>> \o SortedSeq(S \ {m})

get_video_files(dir) == SortedSeq({ n \in DOMAIN dir : dir[n].is_video })

\* cluster_counts, printed for sorted(cluster_counts.keys())
Distribution(assignments) ==
    LET ids == SortedSeq(Range(Values(assignments)))
    IN  [k \in 1..Len(ids) |->
            <<ClusterDir(ids[k]),
              Cardinality({ j \in 1..Len(assignments) : assignments[j][2] = ids[k] })>>]

-----------------------------------------------------------------------------
(* Inputs *)

Detection(w, h, embedding) == [w |-> w, h |-> h, embedding |-> embedding]

\* a frame on which the detector raises (no face, or any other failure)
RaisingFrame == [raises |-> TRUE, results |-> << >>]

\* a frame on which the detector returns an empty list
EmptyFrame == [raises |-> FALSE, results |-> << >>]

FaceFrame(embedding) == [raises |-> FALSE, results |-> <<Detection(1, 1, embedding)>>]

Unreadable == [ret |-> FALSE, frame |-> RaisingFrame]

Readable(frame) == [ret |-> TRUE, frame |-> frame]

Patterns(contents) == UNION { [1..m -> contents] : m \in 1..MaxPatternLen }

\* inputs of extract_frames alone
SamplerVideos ==
    [opened : BOOLEAN, total_frames : 0..MaxTotalFrames,
     pattern : Patterns({Unreadable, Readable(EmptyFrame)})]

\* inputs of get_largest_face_embedding alone
FaceFrames ==
    {RaisingFrame} \cup
    [raises : {FALSE},
     results : SeqsUpTo([w : 1..MaxSide, h : 1..MaxSide,
                         embedding : {<<1, 0>>, <<0, 1>>}], MaxFaces)]

\* inputs of compute_video_fingerprint alone
FingerprintVideos ==
    [opened : BOOLEAN, total_frames : {MIN_TOTAL_FRAMES - 1, MIN_TOTAL_FRAMES, 30},
     pattern : Patterns({Unreadable, Readable(RaisingFrame), Readable(EmptyFrame)}
                        \cup { Readable(FaceFrame(e)) : e \in Embeddings })]

EpsValues == { <<0, 1>>, <<2, 5>>, <<1, 1>> }

MinSamplesValues == {1, 2}

Fingerprints == Embeddings \cup { <<0, 0>> }

\* inputs of cluster_videos alone: dicts with keys 1..m
ClusterInputs ==
    [video_embeddings : { [k \in DOMAIN f |-> <<k, f[k]>>] :
                            f \in SeqsUpTo(Fingerprints, MaxPoints) },
     eps : EpsValues, min_samples : MinSamplesValues]

\* the videos of a run of main: unreadable, too short, without a usable frame
\* (the detector raises, finds nothing, or the frame cannot be read), or showing
\* one face throughout
MainVideos ==
    { [opened |-> FALSE, total_frames |-> 0, pattern |-> <<Unreadable>>],
      [opened |-> TRUE, total_frames |-> MIN_TOTAL_FRAMES - 1,
       pattern |-> <<Readable(FaceFrame(<<1, 0>>))>>],
      [opened |-> TRUE, total_frames |-> MIN_TOTAL_FRAMES,
       pattern |-> <<Readable(RaisingFrame), Readable(EmptyFrame), Unreadable>>] }
    \cup { [opened |-> TRUE, total_frames |-> MIN_TOTAL_FRAMES,
            pattern |-> <<Readable(FaceFrame(e))>>] : e \in Embeddings \ {<<-1, 0>>} }

OrgNames == 1..MaxOrgFiles

\* inputs of organize_videos alone: any files present, any labels, any error list
OrganizeInputs ==
    [files : { [loc |-> [n \in P |-> "source"], dirs |-> {}] : P \in SUBSET OrgNames },
     cluster_assignments :
        UNION { { [k \in 1..Len(SortedSeq(K)) |-> <<SortedSeq(K)[k], l[k]>>] :
                    l \in [1..Cardinality(K) -> -1..MaxLabel] } : K \in SUBSET OrgNames },
     error_files : SeqsUpTo(OrgNames, MaxErrors)]

DirEntries ==
    { [is_video |-> FALSE, video |-> [opened |-> FALSE, total_frames |-> 0,
                                      pattern |-> <<Unreadable>>]] }
    \cup { [is_video |-> TRUE, video |-> v] : v \in MainVideos }

-----------------------------------------------------------------------------
(* main, step by step *)

Idle ==
    /\ args = [source_exists |-> FALSE, dry_run |-> FALSE, eps |-> <<2, 5>>,
               min_samples |-> 1]
    /\ disk = << >>
    /\ video_files = << >>
    /\ i = 0
    /\ video_embeddings = << >>
    /\ error_files = << >>
    /\ cluster_assignments = << >>
    /\ report = << >>
    /\ fs = [loc |-> << >>, dirs |-> {}]
    /\ moved = << >>
    /\ rc = -1
    /\ cluster_calls = << >>

Init ==
    /\ pc = "start"
    /\ arg = << >>
    /\ ret = << >>
    /\ args \in [source_exists : BOOLEAN, dry_run : BOOLEAN, eps : EpsValues,
                 min_samples : MinSamplesValues]
    /\ disk \in UNION { [1..n -> DirEntries] : n \in 0..MaxFiles }
    /\ ~args.source_exists => disk = << >>
    /\ video_files = << >>
    /\ i = 0
    /\ video_embeddings = << >>
    /\ error_files = << >>
    /\ cluster_assignments = << >>
    /\ report = << >>
    /\ fs = [loc |-> [n \in DOMAIN disk |-> "source"], dirs |-> {}]
    /\ moved = << >>
    /\ rc = -1
    /\ cluster_calls = << >>

\* if not source_dir.exists(): return 1
CheckSource ==
    /\ pc = "start"
    /\ IF args.source_exists
       THEN pc' = "find" /\ rc' = rc
       ELSE pc' = "done" /\ rc' = 1
    /\ UNCHANGED <<arg, ret, args, disk, video_files, i, video_embeddings, error_files,
                   cluster_assignments, report, fs, moved>>
    /\ UNCHANGED cluster_calls

\* video_files = get_video_files(source_dir); if not video_files: return 1
FindVideos ==
    /\ pc = "find"
    /\ video_files' = get_video_files(disk)
    /\ IF video_files' = << >>
       THEN pc' = "done" /\ rc' = 1 /\ i' = i
       ELSE pc' = "loop" /\ rc' = rc /\ i' = 1
    /\ video_embeddings' = << >>
    /\ error_files' = << >>
    /\ UNCHANGED <<arg, ret, args, disk, cluster_assignments, report, fs, moved>>
    /\ UNCHANGED cluster_calls

\* slip: the name is appended to error_files whether or not there is an embedding
Fingerprint_always_error ==
    /\ pc = "loop"
    /\ i <= Len(video_files)
    /\ LET name == video_files[i]
           embedding == compute_video_fingerprint(disk[name].video)
       IN  IF embedding.raised
           THEN pc' = "crashed" /\ UNCHANGED <<i, video_embeddings, error_files>>
           ELSE /\ pc' = pc
                /\ i' = i + 1
                /\ error_files' = Append(error_files, name)
                /\ IF embedding.value # None
                   THEN video_embeddings' = Put(video_embeddings, name, embedding.value)
                   ELSE video_embeddings' = video_embeddings
    /\ UNCHANGED <<arg, ret, args, disk, video_files, cluster_assignments, report, fs,
                   moved, rc>>
    /\ UNCHANGED cluster_calls

\* one iteration of "for video_path in video_files"
Fingerprint ==
    /\ pc = "loop"
    /\ i <= Len(video_files)
    /\ LET name == video_files[i]
           embedding == compute_video_fingerprint(disk[name].video)
       IN  IF embedding.raised
           THEN pc' = "crashed" /\ UNCHANGED <<i, video_embeddings, error_files>>
           ELSE /\ pc' = pc
                /\ i' = i + 1
                /\ IF embedding.value # None
                   THEN /\ video_embeddings' = Put(video_embeddings, name, embedding.value)
                        /\ error_files' = error_files
                   ELSE /\ error_files' = Append(error_files, name)
                        /\ video_embeddings' = video_embeddings
    /\ UNCHANGED <<arg, ret, args, disk, video_files, cluster_assignments, report, fs,
                   moved, rc>>
    /\ UNCHANGED cluster_calls

\* if not video_embeddings: move the error files only, return 1
\* line 294 without "not args.dry_run"
EmptyBatch_ignores_dry_run ==
    /\ pc = "loop"
    /\ i > Len(video_files)
    /\ video_embeddings = << >>
    /\ IF error_files # << >>
       THEN fs' = organize_videos(fs, << >>, error_files).fs
       ELSE fs' = fs
    /\ pc' = "done"
    /\ rc' = 1
    /\ UNCHANGED <<arg, ret, args, disk, video_files, i, video_embeddings, error_files,
                   cluster_assignments, report, moved>>
    /\ UNCHANGED cluster_calls

\* lines 291-296 without the call of organize_videos
EmptyBatch_no_move ==
    /\ pc = "loop"
    /\ i > Len(video_files)
    /\ video_embeddings = << >>
    /\ fs' = fs
    /\ pc' = "done"
    /\ rc' = 1
    /\ UNCHANGED <<arg, ret, args, disk, video_files, i, video_embeddings, error_files,
                   cluster_assignments, report, moved>>
    /\ UNCHANGED cluster_calls

\* if not video_embeddings: ... return 1
EmptyBatch ==
    /\ pc = "loop"
    /\ i > Len(video_files)
    /\ video_embeddings = << >>
    /\ IF ~args.dry_run /\ error_files # << >>
       THEN fs' = organize_videos(fs, << >>, error_files).fs
       ELSE fs' = fs
    /\ pc' = "done"
    /\ rc' = 1
    /\ UNCHANGED <<arg, ret, args, disk, video_files, i, video_embeddings, error_files,
                   cluster_assignments, report, moved>>
    /\ UNCHANGED cluster_calls

\* cluster_assignments = cluster_videos(video_embeddings, eps, min_samples)
\* lines 303-307 entered while videos are still to be fingerprinted
Cluster_early ==
    /\ pc = "loop"
    /\ video_embeddings # << >>
    /\ LET r == cluster_videos(video_embeddings, args.eps, args.min_samples)
       IN  IF r.raised
           THEN pc' = "crashed" /\ cluster_assignments' = cluster_assignments
           ELSE pc' = "report" /\ cluster_assignments' = r.value
    /\ UNCHANGED <<arg, ret, args, disk, video_files, i, video_embeddings, error_files,
                   report, fs, moved, rc>>
    /\ cluster_calls' = Append(cluster_calls, video_embeddings)

Cluster ==
    /\ pc = "loop"
    /\ i > Len(video_files)
    /\ video_embeddings # << >>
    /\ LET r == cluster_videos(video_embeddings, args.eps, args.min_samples)
       IN  IF r.raised
           THEN pc' = "crashed" /\ cluster_assignments' = cluster_assignments
           ELSE pc' = "report" /\ cluster_assignments' = r.value
    /\ UNCHANGED <<arg, ret, args, disk, video_files, i, video_embeddings, error_files,
                   report, fs, moved, rc>>
    /\ cluster_calls' = Append(cluster_calls, video_embeddings)

\* the printed statistics and distribution
Report ==
    /\ pc = "report"
    /\ report' = Distribution(cluster_assignments)
                 \o (IF error_files # << >> THEN <<<<"Error", Len(error_files)>>>>
                     ELSE << >>)
    /\ pc' = "move"
    /\ UNCHANGED <<arg, ret, args, disk, video_files, i, video_embeddings, error_files,
                   cluster_assignments, fs, moved, rc>>
    /\ UNCHANGED cluster_calls

\* if args.dry_run: nothing is moved
DryRun ==
    /\ pc = "move"
    /\ args.dry_run
    /\ pc' = "done"
    /\ rc' = 0
    /\ UNCHANGED <<arg, ret, args, disk, video_files, i, video_embeddings, error_files,
                   cluster_assignments, report, fs, moved>>
    /\ UNCHANGED cluster_calls

\* moved = organize_videos(source_dir, output_dir, cluster_assignments, error_files)
\* line 343 returning 1 when some video failed
Organize_fails_on_errors ==
    /\ pc = "move"
    /\ ~args.dry_run
    /\ LET r == organize_videos(fs, cluster_assignments, error_files)
       IN  fs' = r.fs /\ moved' = r.moved_files
    /\ pc' = "done"
    /\ rc' = (IF error_files # << >> THEN 1 ELSE 0)
    /\ UNCHANGED <<arg, ret, args, disk, video_files, i, video_embeddings, error_files,
                   cluster_assignments, report>>
    /\ UNCHANGED cluster_calls

Organize ==
    /\ pc = "move"
    /\ ~args.dry_run
    /\ LET r == organize_videos(fs, cluster_assignments, error_files)
       IN  fs' = r.fs /\ moved' = r.moved_files
    /\ pc' = "done"
    /\ rc' = 0
    /\ UNCHANGED <<arg, ret, args, disk, video_files, i, video_embeddings, error_files,
                   cluster_assignments, report>>
    /\ UNCHANGED cluster_calls

Next ==
    \/ CheckSource
    \/ FindVideos
    \/ Fingerprint
    \/ EmptyBatch
    \/ Cluster
    \/ Report
    \/ DryRun
    \/ Organize

Spec == Init /\ [][Next]_vars

-----------------------------------------------------------------------------
(* Single calls: the argument is drawn from a bounded set, the call returns *)

CallInit(inputs) ==
    /\ pc = "call"
    /\ arg \in inputs
    /\ ret = << >>
    /\ Idle

Return(value) ==
    /\ pc = "call"
    /\ ret' = value
    /\ pc' = "return"
    /\ UNCHANGED <<arg, args, disk, video_files, i, video_embeddings, error_files,
                   cluster_assignments, report, fs, moved, rc, cluster_calls>>

CallExtractFrames == Return(extract_frames(arg, FRAMES_TO_EXTRACT))

SpecSampler == CallInit(SamplerVideos) /\ [][CallExtractFrames]_vars

CallLargestFace == Return(get_largest_face_embedding(arg))

SpecFace == CallInit(FaceFrames) /\ [][CallLargestFace]_vars

CallFingerprint == Return(compute_video_fingerprint(arg))

SpecFingerprint == CallInit(FingerprintVideos) /\ [][CallFingerprint]_vars

CallCluster == Return(cluster_videos(arg.video_embeddings, arg.eps, arg.min_samples))

SpecCluster == CallInit(ClusterInputs) /\ [][CallCluster]_vars

CallOrganize ==
    Return(organize_videos(arg.files, arg.cluster_assignments, arg.error_files))

SpecOrganize == CallInit(OrganizeInputs) /\ [][CallOrganize]_vars

-----------------------------------------------------------------------------
(* fancam_splitter.py: times are whole seconds, a title is a sequence of characters *)

\* time_str.split(':') as the sequence of its fields; [raised, value]
parse_time_to_seconds(parts) ==
    IF Len(parts) = 2
    THEN [raised |-> FALSE, value |-> parts[1] * 60 + parts[2]]
    ELSE IF Len(parts) = 3
    THEN [raised |-> FALSE, value |-> parts[1] * 3600 + parts[2] * 60 + parts[3]]
    ELSE [raised |-> TRUE, value |-> 0]

\* a line of the timestamp file, as the tests of lines 66, 70 and 76 see it
BlankLine == [kind |-> "blank", time |-> << >>, title |-> << >>]

\* a line that neither starts with START: nor matches the pattern of line 76
OtherLine == [kind |-> "other", time |-> << >>, title |-> << >>]

StartLine(time) == [kind |-> "start", time |-> time, title |-> << >>]

ClipLine(time, title) == [kind |-> "clip", time |-> time, title |-> title]

RECURSIVE ReadLines(_, _)
\* the loop over the lines: [raised, clips, start_offset]
ReadLines(lines, state) ==
    IF lines = << >> \/ state.raised THEN state
    ELSE LET line == Head(lines)
             t == parse_time_to_seconds(line.time)
         IN  IF line.kind = "start"
             THEN IF t.raised THEN [state EXCEPT !.raised = TRUE]
                  ELSE ReadLines(Tail(lines), [state EXCEPT !.start_offset = t.value])
             ELSE IF line.kind = "clip"
             THEN ReadLines(Tail(lines),
                            [state EXCEPT !.clips = Append(@, [start |-> t.value,
                                                               title |-> line.title,
                                                               has_end |-> FALSE,
                                                               end |-> 0])])
             ELSE ReadLines(Tail(lines), state)

RECURSIVE ApplyOffset(_, _, _)
\* the loop over the clips, from clip n on: clip n is shifted, then closed with
\* the start of clip n + 1 as the list holds it at that moment
ApplyOffset(clips, n, start_offset) ==
    IF n > Len(clips) THEN clips
    ELSE LET shifted == [clips EXCEPT ![n].start = @ - start_offset]
             closed == IF n < Len(clips)
                       THEN [shifted EXCEPT ![n].has_end = TRUE,
                                            ![n].end = shifted[n + 1].start - start_offset]
                       ELSE shifted
         IN  ApplyOffset(closed, n + 1, start_offset)

\* [raised, clips]
parse_timestamp_file(lines) ==
    LET read == ReadLines(lines, [raised |-> FALSE, clips |-> << >>, start_offset |-> 0])
    IN  IF read.raised THEN [raised |-> TRUE, clips |-> << >>]
        ELSE [raised |-> FALSE, clips |-> ApplyOffset(read.clips, 1, read.start_offset)]

InvalidChars == {"<", ">", ":", "\"", "/", "\\", "|", "?", "*"}

RECURSIVE CollapseUnderscores(_)
\* re.sub(r'_+', '_', result)
CollapseUnderscores(t) ==
    IF Len(t) < 2 THEN t
    ELSE IF t[1] = "_" /\ t[2] = "_" THEN CollapseUnderscores(Tail(t))
    ELSE <<t[1]>> \o CollapseUnderscores(Tail(t))

RECURSIVE StripLeft(_)
StripLeft(t) == IF t # << >> /\ t[1] = "_" THEN StripLeft(Tail(t)) ELSE t

RECURSIVE StripRight(_)
StripRight(t) ==
    IF t # << >> /\ t[Len(t)] = "_" THEN StripRight(SubSeq(t, 1, Len(t) - 1)) ELSE t

IsNotComma(c) == c # ","

sanitize_filename(title) ==
    LET replaced == [k \in DOMAIN title |-> IF title[k] \in InvalidChars THEN "_" ELSE title[k]]
        collapsed == CollapseUnderscores(replaced)
        spaced == [k \in DOMAIN collapsed |-> IF collapsed[k] = " " THEN "_" ELSE collapsed[k]]
        stripped == StripRight(StripLeft(spaced))
    IN  SelectSeq(stripped, IsNotComma)

\* ffprobe on the video: [raised, value]
get_video_duration(video) ==
    IF video.probe_ok THEN [raised |-> FALSE, value |-> video.duration]
    ELSE [raised |-> TRUE, value |-> 0]

\* if 'end' not in clips[-1]: clips[-1]['end'] = video_duration - clips[0]['start']
CloseLastClip(clips, video_duration) ==
    IF ~clips[Len(clips)].has_end
    THEN [clips EXCEPT ![Len(clips)].has_end = TRUE,
                       ![Len(clips)].end = video_duration - clips[1].start]
    ELSE clips

\* f"{pfx}{i:02d}_{title_clean}.mp4", as its parts
OutputName(prefix, n, title) ==
    <<(IF prefix # "" THEN prefix \o "_" ELSE ""), Pad2(n), sanitize_filename(title)>>

RECURSIVE ExtractClips(_, _, _, _, _)
\* the loop of lines 301-335 from clip n on; run.existing are the clips whose
\* output file exists, run.failing those on which ffmpeg fails
ExtractClips(clips, n, video_duration, run, state) ==
    IF n > Len(clips) THEN state
    ELSE LET clip == clips[n]
             end == IF clip.has_end THEN clip.end ELSE video_duration
             call == [start |-> clip.start, duration |-> end - clip.start,
                      output |-> OutputName(run.prefix, n, clip.title)]
         IN  IF n \in run.existing
             THEN ExtractClips(clips, n + 1, video_duration, run,
                               [state EXCEPT !.skipped_count = @ + 1])
             ELSE IF n \notin run.failing
             THEN ExtractClips(clips, n + 1, video_duration, run,
                               [state EXCEPT !.success_count = @ + 1,
                                             !.calls = Append(@, call)])
             ELSE ExtractClips(clips, n + 1, video_duration, run,
                               [state EXCEPT !.error_count = @ + 1,
                                             !.calls = Append(@, call)])

\* [result, clips, made_dir, calls]: the tuple returned, the clips as prepared,
\* whether the output directory was made, and the calls of split_video
process_video(run) ==
    LET probe == get_video_duration(run)
        parsed == parse_timestamp_file(run.lines)
        failed == [result |-> <<0, 0, 1>>, clips |-> << >>, made_dir |-> FALSE,
                   calls |-> << >>]
    IN  IF probe.raised \/ parsed.raised \/ parsed.clips = << >> THEN failed
        ELSE LET clips == CloseLastClip(parsed.clips, probe.value)
                 done == ExtractClips(clips, 1, probe.value, run,
                                      [success_count |-> 0, skipped_count |-> 0,
                                       error_count |-> 0, calls |-> << >>])
             IN  IF run.dry_run
                 THEN [result |-> <<0, 0, 0>>, clips |-> clips, made_dir |-> FALSE,
                       calls |-> << >>]
                 ELSE [result |-> <<done.success_count, done.skipped_count,
                                    done.error_count>>,
                       clips |-> clips, made_dir |-> TRUE, calls |-> done.calls]

PlainTitle == <<"A">>

\* "a, //b_", which sanitize_filename turns into "a__b"
MessyTitle == <<"a", ",", " ", "/", "/", "b", "_">>

SplitterLines ==
    { BlankLine, OtherLine,
      StartLine(<<0, 30>>), StartLine(<<0, 1, 0>>), StartLine(<<90>>),
      ClipLine(<<1, 0>>, PlainTitle), ClipLine(<<2, 0>>, MessyTitle),
      ClipLine(<<0, 3, 0>>, PlainTitle), ClipLine(<<0, 30>>, MessyTitle) }

\* runs on which ffprobe fails, dry runs, and runs that cut
SplitterInputs ==
    [probe_ok : {FALSE}, duration : {600}, lines : SeqsUpTo(SplitterLines, MaxLines),
     dry_run : {TRUE}, prefix : {""}, existing : {{}}, failing : {{}}]
    \cup [probe_ok : {TRUE}, duration : {600, 900},
          lines : SeqsUpTo(SplitterLines, MaxLines),
          dry_run : {TRUE}, prefix : {""}, existing : {{}}, failing : {{}}]
    \cup [probe_ok : {TRUE}, duration : {600},
          lines : SeqsUpTo(SplitterLines, MaxLines),
          dry_run : {FALSE}, prefix : {"", "d1"}, existing : {{}, {1}},
          failing : {{}, {2}}]

CallProcessVideo == Return(process_video(arg))

SpecSplitter == CallInit(SplitterInputs) /\ [][CallProcessVideo]_vars

-----------------------------------------------------------------------------
(* Properties *)

\* C1: for every total frame count >= 10 (sample count 20, skip fraction 0.10),
\* every frame index extract_frames seeks to lies in
\* [floor(total/10), floor(9*total/10)).
C1_IndicesWithinInterior ==
    (pc = "return" /\ arg.opened /\ arg.total_frames >= 10) =>
        /\ ~ret.raised
        /\ Len(ret.frame_indices) > 0
        /\ \A k \in 1..Len(ret.frame_indices) :
              /\ arg.total_frames \div 10 <= ret.frame_indices[k]
              /\ ret.frame_indices[k] < (9 * arg.total_frames) \div 10

\* a 60-frame video is sampled at 20 indices, from 6 up to 51
C1_Witness ==
    /\ pc = "return"
    /\ arg.opened
    /\ arg.total_frames = 60
    /\ Len(ret.frame_indices) = 20
    /\ ret.frame_indices[1] = 6
    /\ ret.frame_indices[20] = 51

FolderNames == <<"Dancer_01", "Dancer_02", "Dancer_03", "Dancer_04", "Dancer_05">>

\* the non-negative labels of an assignment
LabelsPresent(assignments) == Range(Values(assignments)) \ {-1}

\* the files the second loop of organize_videos moves
MovedByLabel(input, name) ==
    name \in DOMAIN input.files.loc /\ name \notin Range(input.error_files)

C3_EmptyMapReturnsEmpty ==
    (pc = "return" /\ arg.video_embeddings = << >>) =>
        (~ret.raised /\ ret.value = << >>)

Processed(k) == k < i

TooShortOrUnreadable(v) == ~v.opened \/ v.total_frames < 10

\* C4: for every video with fewer than 10 frames, and every video that cannot be
\* opened, sampling fails, compute_video_fingerprint returns None without
\* raising, the video is put in error_files and not in video_embeddings, and the
\* loop goes on (main never stops inside the loop).
C4_ShortOrUnreadableGoesToErrors ==
    /\ \A k \in 1..Len(video_files) :
          LET name == video_files[k]
              v == disk[name].video
          IN  TooShortOrUnreadable(v) =>
                  /\ extract_frames(v, FRAMES_TO_EXTRACT).raised
                  /\ compute_video_fingerprint(v) = [raised |-> FALSE, value |-> None]
                  /\ Processed(k) => /\ name \in Range(error_files)
                                     /\ name \notin KeySet(video_embeddings)
    /\ pc = "crashed" => i > Len(video_files)
    /\ pc \in {"report", "move"} => i > Len(video_files)

\* an unreadable video, then a 9-frame video, then a video that is fingerprinted
C4_Witness ==
    /\ pc = "done"
    /\ rc = 0
    /\ Len(video_files) = 3
    /\ ~disk[video_files[1]].video.opened
    /\ disk[video_files[2]].video.opened
    /\ disk[video_files[2]].video.total_frames = 9
    /\ error_files = <<video_files[1], video_files[2]>>
    /\ KeySet(video_embeddings) = {video_files[3]}

\* C5: while and after the fingerprinting loop, every video handled so far is in
\* exactly one of video_embeddings and error_files and was written once (as many
\* entries as iterations); after the loop the two cover the batch, and the keys
\* of cluster_assignments are those of video_embeddings, disjoint from the errors.
C5_FingerprintsAndErrorsPartitionBatch ==
    (pc \in {"loop", "report", "move", "crashed"} \/ (pc = "done" /\ video_files # << >>)) =>
        LET seen == { video_files[k] : k \in 1..(i - 1) }
        IN  /\ KeySet(video_embeddings) \cap Range(error_files) = {}
            /\ KeySet(video_embeddings) \cup Range(error_files) = seen
            /\ Len(video_embeddings) + Len(error_files) = i - 1
            /\ pc # "loop" => seen = { n \in DOMAIN disk : disk[n].is_video }
            /\ pc \in {"report", "move"} \/ (pc = "done" /\ rc = 0) =>
                   /\ KeySet(cluster_assignments) = KeySet(video_embeddings)
                   /\ KeySet(cluster_assignments) \cap Range(error_files) = {}
                   /\ KeySet(cluster_assignments) \cup Range(error_files) = seen

\* a finished run with one error and two clustered videos
C5_Witness ==
    /\ pc = "done"
    /\ rc = 0
    /\ Len(error_files) = 1
    /\ Len(cluster_assignments) = 2
    /\ Len(video_files) = 3

Isolated(X, k, eps) == \A j \in 1..Len(X) : j # k => ~WithinEps(X[k], X[j], eps)

NoNoise(input, result) ==
    /\ ~result.raised
    /\ Len(result.value) = Len(input.video_embeddings)
    /\ \A k \in 1..Len(result.value) :
          /\ result.value[k][1] = input.video_embeddings[k][1]
          /\ result.value[k][2] >= 0
          /\ Isolated(Values(input.video_embeddings), k, input.eps) =>
                 \A j \in 1..Len(result.value) :
                     j # k => result.value[j][2] # result.value[k][2]

\* C6 (as amended): with min_samples = 1, for every non-empty fingerprint map and
\* every eps > 0, cluster_videos gives every video a non-negative label, and a
\* video with no neighbour within eps a label of its own.
C6_NoNoiseForPositiveEps ==
    (pc = "return" /\ arg.min_samples = 1 /\ arg.video_embeddings # << >>
                   /\ arg.eps[1] > 0) =>
        NoNoise(arg, ret)

\* two videos at cosine distance 1 with eps = 0.4: labels 0 and 1
C6_Witness ==
    /\ pc = "return"
    /\ arg.min_samples = 1
    /\ arg.eps = <<2, 5>>
    /\ arg.video_embeddings = << <<1, <<1, 0>> >>, <<2, <<0, 1>> >> >>
    /\ ret.value = << <<1, 0>>, <<2, 1>> >>

\* C6 as stated: the same for every eps.
C6_NoNoiseForEveryEps ==
    (pc = "return" /\ arg.min_samples = 1 /\ arg.video_embeddings # << >>) =>
        NoNoise(arg, ret)

RECURSIVE ChainFrom(_, _, _)
\* the positions of d linked to one of S by steps of cosine distance <= eps
ChainFrom(d, eps, S) ==
    LET more == S \cup { k \in 1..Len(d) : \E c \in S : WithinEps(d[c][2], d[k][2], eps) }
    IN  IF more = S THEN S ELSE ChainFrom(d, eps, more)

\* C7: in a run with min_samples = 1 that moves the files, two fingerprinted
\* videos are in the same folder exactly when a chain of videos with consecutive
\* cosine distances <= eps links them, and the folders are Dancer folders; if
\* all are pairwise within eps they are all in Dancer_01, and a batch of two
\* videos farther apart than eps ends in Dancer_01 and Dancer_02.
C7_SameFolderIffLinked ==
    (pc = "done" /\ rc = 0 /\ ~args.dry_run /\ args.min_samples = 1) =>
        LET d == video_embeddings
            n == Len(d)
            At(k) == fs.loc[d[k][1]]
        IN  /\ \A a, b \in 1..n : (At(a) = At(b)) <=> (b \in ChainFrom(d, args.eps, {a}))
            /\ \A a \in 1..n : At(a) \in { FolderNames[k] : k \in 1..n }
            /\ (\A a, b \in 1..n : WithinEps(d[a][2], d[b][2], args.eps)) =>
                   \A a \in 1..n : At(a) = "Dancer_01"
            /\ (n = 2 /\ ~WithinEps(d[1][2], d[2][2], args.eps)) =>
                   (At(1) = "Dancer_01" /\ At(2) = "Dancer_02")

\* three videos, the first two at distance 1 and each within 0.4 of the third:
\* one folder
C7_Witness ==
    /\ pc = "done"
    /\ rc = 0
    /\ ~args.dry_run
    /\ args.min_samples = 1
    /\ args.eps = <<2, 5>>
    /\ Values(video_embeddings) = << <<1, 0>>, <<0, 1>>, <<1, 1>> >>
    /\ \A n \in 1..3 : fs.loc[n] = "Dancer_01"

\* no sampled frame of the video gives an embedding: unread, detector raises,
\* or detector returns nothing
NothingDetected(v) ==
    /\ v.opened
    /\ v.total_frames >= 10
    /\ \A n \in Range(frame_indices(v.total_frames, FRAMES_TO_EXTRACT)) :
          LET c == ContentAt(v, n)
          IN  ~c.ret \/ c.frame.raises \/ c.frame.results = << >>

\* C8: if no sampled frame of a video yields an embedding (or none can be read),
\* compute_video_fingerprint returns None, and the video is in error_files once
\* handled and never in video_embeddings or cluster_assignments.
C8_NoFaceVideoOnlyInErrors ==
    \A k \in 1..Len(video_files) :
        LET name == video_files[k]
            v == disk[name].video
        IN  NothingDetected(v) =>
                /\ compute_video_fingerprint(v) = [raised |-> FALSE, value |-> None]
                /\ name \notin KeySet(video_embeddings)
                /\ name \notin KeySet(cluster_assignments)
                /\ Processed(k) => name \in Range(error_files)

\* a video without a usable frame next to a clustered one
C8_Witness ==
    /\ pc = "done"
    /\ rc = 0
    /\ Len(video_files) = 2
    /\ NothingDetected(disk[video_files[1]].video)
    /\ error_files = <<video_files[1]>>
    /\ KeySet(cluster_assignments) = {video_files[2]}

\* C9: for a frame with detections, get_largest_face_embedding returns the
\* embedding of the first detection of maximal area w*h.
C9_LargestFaceFirstOnTies ==
    (pc = "return" /\ ~arg.raises /\ arg.results # << >>) =>
        LET n == Len(arg.results)
            largest == { k \in 1..n :
                           \A j \in 1..n : arg.results[j].w * arg.results[j].h
                                           <= arg.results[k].w * arg.results[k].h }
            first == CHOOSE k \in largest : \A j \in largest : k <= j
        IN  ret = arg.results[first].embedding

\* areas 1, 2, 2: the second detection wins the tie with the third
C9_Witness ==
    /\ pc = "return"
    /\ arg = [raises |-> FALSE,
              results |-> <<Detection(1, 1, <<1, 0>>), Detection(1, 2, <<0, 1>>),
                            Detection(2, 1, <<1, 0>>)>>]
    /\ ret = <<0, 1>>

\* how many sampled frames of v are read and show (first) the embedding e
Yielding(v, e) ==
    LET sampled == frame_indices(v.total_frames, FRAMES_TO_EXTRACT)
    IN  Cardinality({ k \in 1..Len(sampled) :
            LET c == ContentAt(v, sampled[k])
            IN  /\ c.ret
                /\ ~c.frame.raises
                /\ c.frame.results # << >>
                /\ c.frame.results[1].embedding = e })

RECURSIVE WeightedSum(_, _, _)
\* sum over e in S of Yielding(v, e) * e[d]
WeightedSum(v, S, d) ==
    IF S = {} THEN 0
    ELSE LET e == CHOOSE x \in S : TRUE
         IN  (Yielding(v, e) * e[d]) + WeightedSum(v, S \ {e}, d)

\* C10: a frame on which the detector raises or returns nothing only drops out:
\* when some sampled frame yields an embedding, compute_video_fingerprint returns
\* the direction of the sum (the normalized mean) of the embeddings of exactly
\* the yielding frames.
C10_FailedFramesOnlyDropOut ==
    (pc = "return" /\ arg.opened /\ arg.total_frames >= 10) =>
        LET total == <<WeightedSum(arg, Embeddings, 1), WeightedSum(arg, Embeddings, 2)>>
        IN  (\E e \in Embeddings : Yielding(arg, e) > 0) =>
                /\ ~ret.raised
                /\ ret.value # None
                /\ IF total = <<0, 0>> THEN ret.value = total
                   ELSE \E g \in 1..FRAMES_TO_EXTRACT :
                            \A d \in 1..2 : total[d] = g * ret.value[d]

\* frames 1..8 of a 10-frame video: raise, nothing, <<0, 1>>, raise, nothing, ...
C10_Witness ==
    /\ pc = "return"
    /\ arg.opened
    /\ arg.total_frames = 10
    /\ arg.pattern = <<Readable(FaceFrame(<<0, 1>>)), Readable(RaisingFrame),
                       Readable(EmptyFrame)>>
    /\ ret.value = <<0, 1>>


\* C11: when total_frames >= 10 and the usable span end - start is smaller than
\* the sample count, the indices extract_frames seeks to are exactly
\* start, start + 1, ..., end - 1: every integer of [start, end) once, ascending.
C11_DenseIndicesAreTheWholeSpan ==
    LET start == arg.total_frames \div 10
        end == (9 * arg.total_frames) \div 10
    IN  (/\ pc = "return"
         /\ arg.opened
         /\ arg.total_frames >= 10
         /\ end - start < FRAMES_TO_EXTRACT) =>
            /\ ~ret.raised
            /\ Len(ret.frame_indices) = end - start
            /\ \A k \in 1..Len(ret.frame_indices) : ret.frame_indices[k] = start + k - 1
            /\ \A n \in start..(end - 1) :
                  Cardinality({ k \in 1..Len(ret.frame_indices) : ret.frame_indices[k] = n }) = 1

\* a 24-frame video has the span [2, 21) of 19 frames, and all 19 are sought
C11_Witness ==
    /\ pc = "return"
    /\ arg.opened
    /\ arg.total_frames = 24
    /\ ret.frame_indices = [k \in 1..19 |-> k + 1]

\* C12: when the usable span end - start is at least the sample count, extract_frames
\* seeks to exactly sample-count indices, the i-th (i = 0..sample count - 1) being
\* floor(start + i * (end - start) / sample count); the sequence is a function of
\* the total frame count alone, so the same input always gives the same sequence.
C12_SparseIndicesByFormula ==
    LET start == arg.total_frames \div 10
        end == (9 * arg.total_frames) \div 10
    IN  (/\ pc = "return"
         /\ arg.opened
         /\ arg.total_frames >= 10
         /\ end - start >= FRAMES_TO_EXTRACT) =>
            /\ ~ret.raised
            /\ Len(ret.frame_indices) = FRAMES_TO_EXTRACT
            /\ \A k \in 1..FRAMES_TO_EXTRACT :
                  \* floor(x) is the integer n with n <= x < n + 1, here scaled by the sample count
                  /\ FRAMES_TO_EXTRACT * ret.frame_indices[k]
                        <= FRAMES_TO_EXTRACT * start + (k - 1) * (end - start)
                  /\ FRAMES_TO_EXTRACT * start + (k - 1) * (end - start)
                        < FRAMES_TO_EXTRACT * (ret.frame_indices[k] + 1)

\* a 33-frame video has the span [3, 29) of 26 frames: step 1.3, indices 3, 4, 5, 6, 8, ...
C12_Witness ==
    /\ pc = "return"
    /\ arg.opened
    /\ arg.total_frames = 33
    /\ Len(ret.frame_indices) = 20
    /\ ret.frame_indices[4] = 6
    /\ ret.frame_indices[5] = 8
    /\ ret.frame_indices[20] = 27


\* the source directory as main found it: every entry in place, no folder made
Untouched == [loc |-> [n \in DOMAIN disk |-> "source"], dirs |-> {}]

\* C13: in a dry run main still fingerprints every video and, when at least one
\* fingerprint exists, calls cluster_videos, but organize_videos is never called:
\* no directory is created, no file is moved, and the source directory is unchanged.
C13_DryRunLeavesSourceUnchanged ==
    args.dry_run =>
        /\ fs = Untouched
        /\ moved = << >>
        /\ (pc \in {"done", "crashed"} /\ video_files # << >>) =>
              /\ i = Len(video_files) + 1
              /\ KeySet(video_embeddings) \cup Range(error_files) = Range(video_files)
        /\ (pc \in {"done", "crashed"} /\ video_embeddings # << >>) =>
              cluster_calls = <<video_embeddings>>

\* a dry run over a batch with a fingerprinted and a failed video ends with status 0,
\* clustered, and the directory as it was
C13_Witness ==
    /\ args.dry_run
    /\ pc = "done"
    /\ rc = 0
    /\ error_files # << >>
    /\ cluster_assignments # << >>
    /\ Len(cluster_calls) = 1
    /\ fs = Untouched

\* C14: when no video of the batch produces a fingerprint, main does not call
\* cluster_videos, moves every video to the Error folder in a run that is not a
\* dry run, and ends by returning a status, never by raising.
C14_AllFailedBatchGoesToError ==
    (video_files # << >> /\ i > Len(video_files) /\ video_embeddings = << >>
     /\ pc # "loop") =>
        /\ pc = "done"
        /\ rc = 1
        /\ cluster_calls = << >>
        /\ cluster_assignments = << >>
        /\ Range(error_files) = Range(video_files)
        /\ ~args.dry_run => \A n \in Range(video_files) : fs.loc[n] = "Error"

\* two videos, none fingerprinted, with an eps that DBSCAN would reject: both end
\* in Error and main returns
C14_Witness ==
    /\ pc = "done"
    /\ ~args.dry_run
    /\ args.eps = <<0, 1>>
    /\ Len(video_files) = 2
    /\ video_embeddings = << >>
    /\ \A n \in Range(video_files) : fs.loc[n] = "Error"
    /\ rc = 1

\* C15 (as stated): main returns a non-zero status only when the source directory
\* does not exist or holds no video file; a run that found and processed videos
\* does not return a non-zero status because of per-video failures.
C15_NonZeroOnlyWithoutVideos ==
    (pc = "done" /\ rc # 0) => (~args.source_exists \/ video_files = << >>)

\* C15 (as amended): main returns a non-zero status only when the source directory
\* does not exist, holds no video file, or none of its videos yields a fingerprint;
\* once one video is fingerprinted, the failures of the others do not make main
\* return a non-zero status.
C15_NonZeroOnlyWithoutFingerprints ==
    /\ (pc = "done" /\ rc # 0) =>
          (~args.source_exists \/ video_files = << >> \/ video_embeddings = << >>)
    /\ (pc = "done" /\ video_embeddings # << >>) => rc = 0

\* videos were found and every one of them failed: main returns 1
C15_Witness ==
    /\ pc = "done"
    /\ args.source_exists
    /\ video_files # << >>
    /\ Len(error_files) = Len(video_files)
    /\ rc = 1

\* the fingerprint compute_video_fingerprint gives the video of a directory entry
FingerprintOf(name) == compute_video_fingerprint(disk[name].video).value

\* C16: cluster_videos is called at most once, and only after
\* compute_video_fingerprint has finished for every enumerated video; the map it
\* receives holds exactly the videos whose fingerprint is present, and the
\* fingerprints are the same ever after.
C16_ClusterOnceAfterAllFingerprints ==
    /\ Len(cluster_calls) <= 1
    /\ cluster_calls # << >> =>
          /\ i = Len(video_files) + 1
          /\ cluster_calls[1] = video_embeddings
          /\ KeySet(cluster_calls[1])
                = { n \in Range(video_files) : FingerprintOf(n) # None }
          /\ \A k \in 1..Len(cluster_calls[1]) :
                cluster_calls[1][k][2] = FingerprintOf(cluster_calls[1][k][1])

\* a finished run that clustered two fingerprints and left a failed video out
C16_Witness ==
    /\ pc = "done"
    /\ Len(cluster_calls) = 1
    /\ Len(cluster_calls[1]) = 2
    /\ error_files # << >>
    /\ rc = 0


\* the folder the claim gives a named file: Error first, else the folder of its label
DestinationOf(name, assignments, errors) ==
    IF name \in Range(errors) THEN "Error"
    ELSE IF Get(assignments, name) = -1 THEN "Unknown"
    ELSE FolderNames[Get(assignments, name) + 1]

\* C17: for any cluster_assignments and error_files given to organize_videos, each
\* named file that exists in the source directory is moved exactly once and ends in
\* exactly one folder (Error when it is listed both as error and as clustered);
\* named files missing from the source are skipped without error, files not named
\* stay where they are, and the returned mapping has exactly the moved files as keys.
C17_EachNamedFileMovedOnce ==
    pc = "return" =>
        LET named == Range(arg.error_files) \cup KeySet(arg.cluster_assignments)
            present == DOMAIN arg.files.loc
            movedOnce(n) == Cardinality({ k \in 1..Len(ret.moves) : ret.moves[k][1] = n }) = 1
        IN  /\ DOMAIN ret.fs.loc = present
            /\ \A n \in present \cap named :
                  /\ movedOnce(n)
                  /\ ret.fs.loc[n]
                        = DestinationOf(n, arg.cluster_assignments, arg.error_files)
                  /\ ret.fs.loc[n] \in ret.fs.dirs
            /\ \A n \in present \ named : ret.fs.loc[n] = "source"
            /\ Len(ret.moves) = Cardinality(present \cap named)
            /\ KeySet(ret.moved_files) = present \cap named
            /\ Len(ret.moved_files) = Cardinality(present \cap named)
            /\ \A k \in 1..Len(ret.moved_files) :
                  ret.moved_files[k][2] = ret.fs.loc[ret.moved_files[k][1]]

\* file 1 is listed twice as error and also as clustered, file 2 is named but missing:
\* one move, of file 1 to Error
C17_Witness ==
    /\ pc = "return"
    /\ DOMAIN arg.files.loc = {1}
    /\ arg.error_files = <<1, 1>>
    /\ arg.cluster_assignments = << <<1, 0>>, <<2, 1>> >>
    /\ ret.moves = << <<1, "Error">> >>
    /\ ret.fs.loc[1] = "Error"
    /\ Keys(ret.moved_files) = <<1>>


\* the START offset parse_timestamp_file reads from the lines
StartOffsetOf(lines) ==
    ReadLines(lines, [raised |-> FALSE, clips |-> << >>, start_offset |-> 0]).start_offset

\* C18: once process_video has prepared the clips, every clip but the last ends
\* where the next clip starts, and the end of the last clip is the duration of the
\* video reported by ffprobe in the time base of the clip starts (the duration as
\* reported, or the duration less the START offset).
C18_LastClipEndsWithVideo ==
    (pc = "return" /\ ret.clips # << >>) =>
        LET clips == ret.clips
            last == clips[Len(clips)]
        IN  /\ \A k \in 1..(Len(clips) - 1) :
                  clips[k].has_end /\ clips[k].end = clips[k + 1].start
            /\ last.has_end
            /\ last.end \in {arg.duration, arg.duration - StartOffsetOf(arg.lines)}

====
